---- MODULE Spec2Model ----
(***************************************************************************)
(* Building generation (BuildingFactory.cpp) and the tile driver            *)
(* (BuildingPager.cpp) of osgearth-buildings.                                *)
(*                                                                           *)
(* Numbers.  Heights are C++ floats; a float is modelled as a record         *)
(* [m, e] standing for m * 2^e tenths of a unit, so 30.0 is [m |-> 300,      *)
(* e |-> 0] and quotients beyond the range of a 32 bit unsigned stay         *)
(* representable.  Terrain elevations and wall z values are integers.       *)
(* Plan coordinates are integers; a bounding-box center is kept doubled      *)
(* (xmin + xmax) so that half-integer centers are exact.                     *)
(***************************************************************************)
EXTENDS Integers, Sequences, FiniteSets, TLC

VARIABLES
    input,      \* create: the FeatureCursor argument ([null, features])
    cropTo,     \* create: the GeoExtent argument
    style,      \* create: the Style* argument
    factory,    \* the BuildingFactory: [session, catalog]
    output,     \* create: the BuildingVector argument
    cursorPos,  \* number of features already taken from the cursor
    ret,        \* create: return value ("none" until it returns)
    fpc,        \* create: position ("idle", "loop", "done")
    output0,    \* history: output as it was when create was entered
    raw,        \* history: the buildings of output as generated, before the clamper
    owner,      \* history: for each element of output, the cursor index that appended it (0: older)
    trace,      \* history: one record per feature taken from the cursor
    pager,      \* the BuildingPager: [session, compiler, features, catalog, minLevel, maxLevel]
    call,       \* the createNode call in progress: [active, key, steps, env]
    tiles       \* history: the finished createNode calls, by tile key

fvars == <<input, cropTo, style, factory, output, cursorPos, ret, fpc, output0, raw, owner, trace>>

pvars == <<pager, call, tiles>>

vars == <<fvars, pvars>>

-----------------------------------------------------------------------------
(* Bounds of the model *)

MaxCursor == 2

-----------------------------------------------------------------------------
(* Floats *)

F(n) == [m |-> n, e |-> 0]

FLT_MAX == 1000000

\* osg::round on the quotient a/b of two integers, b > 0:
\* v >= 0 ? floor(v + 0.5) : ceil(v - 0.5)
osgRound(a, b) ==
    IF a >= 0 THEN (2 * a + b) \div (2 * b)
    ELSE -((b - 2 * a) \div (2 * b))

\* height / unitHeight followed by osg::round, on floats.  Scaled heights
\* (e > 0) are only used with a unit height that divides the mantissa.
RoundedQuotient(height, unitHeight) ==
    IF height.e = 0 THEN [m |-> osgRound(height.m, unitHeight), e |-> 0]
    ELSE [m |-> height.m \div unitHeight, e |-> height.e]

\* std::max(1.0f, q)
Max1(q) == IF q.m < 1 THEN [m |-> 1, e |-> 0] ELSE q

UnsignedBits == 32

\* (unsigned) of a float q >= 1.  In range the value is kept.  Out of range the
\* conversion is undefined; the x86-64 build truncates to 64 bits and keeps
\* the low 32, which for a multiple of 2^32 is 0.
FloatToUnsigned(q) ==
    IF q.e = 0 THEN q.m
    ELSE IF q.e >= UnsignedBits THEN 0
    ELSE q.m * (2 ^ q.e)

-----------------------------------------------------------------------------
(* Data *)

NoSym == [present |-> FALSE, height |-> [kind |-> "const", value |-> F(0)], floorHeight |-> 0]

BuildingSymbol(expr, fh) == [present |-> TRUE, height |-> expr, floorHeight |-> fh]

ConstExpr(v) == [kind |-> "const", value |-> v]

AttrExpr == [kind |-> "attr", value |-> F(0)]

NullStyle == [null |-> TRUE, name |-> <<>>, altitude |-> "absent", building |-> NoSym]

MkStyle(name, altitude, sym) == [null |-> FALSE, name |-> name, altitude |-> altitude, building |-> sym]

EmptyStyle == MkStyle(<<>>, "absent", NoSym)

NoSkin == [present |-> FALSE, imageHeight |-> 0]

Skin(h) == [present |-> TRUE, imageHeight |-> h]

Face(ll, lu, rl, ru) ==
    [left |-> [lower |-> ll, upper |-> lu], right |-> [lower |-> rl, upper |-> ru]]

\* An Elevation: parent is the path (indices from the building's elevation
\* list) of the Elevation set by setParent, <<>> when none was set.
Elevation(height, numFloors, roof, skin, width, parent, walls, elevations) ==
    [height |-> height, numFloors |-> numFloors, roof |-> roof, skin |-> skin,
     width |-> width, parent |-> parent, walls |-> walls, elevations |-> elevations]

Roof(type, skin) == [type |-> type, skin |-> skin]

Building(uid, elevations) == [uid |-> uid, elevations |-> elevations]

Wall(faces) == [faces |-> faces]

\* Geometry: bounds are [xmin, xmax, ymin, ymax]; parts are what a
\* GeometryIterator yields, each a polygon or not, valid or not.
NoGeometry ==
    [present |-> FALSE, type |-> "none", valid |-> FALSE, parts |-> <<>>,
     bounds |-> [xmin |-> 0, xmax |-> 0, ymin |-> 0, ymax |-> 0]]

Part(isPolygon, valid, edges) == [polygon |-> isPolygon, valid |-> valid, edges |-> edges]

Geometry(type, valid, parts, xmin, xmax, ymin, ymax) ==
    [present |-> TRUE, type |-> type, valid |-> valid, parts |-> parts,
     bounds |-> [xmin |-> xmin, xmax |-> xmax, ymin |-> ymin, ymax |-> ymax]]

\* A FeatureCursor*: null, or the features it will yield.
NullCursor == [null |-> TRUE, features |-> <<>>]

Cursor(features) == [null |-> FALSE, features |-> features]

\* What the elevation query answers for one part of a geometry.
Sampled(ok, elevations) == [ok |-> ok, elevations |-> elevations]

\* A Feature*.  terrain: the elevation query's answer per geometry part;
\* height: the attribute a height expression may read; catalog: how many
\* buildings the catalog makes of it.
Feature(fid, geometry, terrain, height, catalog) ==
    [null |-> FALSE, fid |-> fid, geometry |-> geometry, terrain |-> terrain,
     height |-> height, catalog |-> catalog]

NullFeature ==
    [null |-> TRUE, fid |-> 0, geometry |-> NoGeometry, terrain |-> <<>>,
     height |-> F(0), catalog |-> 0]

GeoExtent(west, east, south, north) ==
    [valid |-> TRUE, west |-> west, east |-> east, south |-> south, north |-> north]

InvalidExtent == [valid |-> FALSE, west |-> 0, east |-> 0, south |-> 0, north |-> 0]

\* A Session: its style sheet (a function from style names to styles), the
\* sheet's default style and the wall skin "facade.commercial.1" of the
\* default resource library.
Session(styles, defaultStyle, reslib, wallSkin) ==
    [valid |-> TRUE, styles |-> styles, defaultStyle |-> defaultStyle,
     reslib |-> reslib, wallSkin |-> wallSkin]

NullSession ==
    [valid |-> FALSE, styles |-> <<>>, defaultStyle |-> EmptyStyle,
     reslib |-> FALSE, wallSkin |-> NoSkin]

-----------------------------------------------------------------------------
(* BuildingFactory *)

\* osg::BoundingBox::center(), doubled
Center2(bounds) == [x |-> bounds.xmin + bounds.xmax, y |-> bounds.ymin + bounds.ymax]

\* GeoExtent::contains: the bounds are inclusive
Contains2(extent, p2) ==
    /\ extent.valid
    /\ p2.x >= 2 * extent.west /\ p2.x <= 2 * extent.east
    /\ p2.y >= 2 * extent.south /\ p2.y <= 2 * extent.north

cropToCentroidNoCrop(feature, extent) == TRUE

cropToCentroid(feature, extent) ==
    IF ~extent.valid THEN TRUE
    ELSE Contains2(extent, Center2(feature.geometry.bounds))

\* The inner loop of calculateTerrainMinMax over one part's elevations.
RECURSIVE MinMaxOver(_, _, _, _)
MinMaxOver(elevations, i, min, max) ==
    IF i > Len(elevations) THEN <<min, max>>
    ELSE LET e == elevations[i]
             min1 == IF e < min THEN e ELSE min
             max1 == IF e > max THEN e ELSE max
         IN MinMaxOver(elevations, i + 1, min1, max1)

RECURSIVE MinMaxParts(_, _, _, _)
MinMaxParts(terrain, p, min, max) ==
    IF p > Len(terrain) THEN <<min, max>>
    ELSE IF terrain[p].ok
         THEN LET mm == MinMaxOver(terrain[p].elevations, 1, min, max)
              IN MinMaxParts(terrain, p + 1, mm[1], mm[2])
         ELSE MinMaxParts(terrain, p + 1, min, max)

calculateTerrainMinMax(feature, min, max) ==
    IF feature.null \/ ~feature.geometry.present THEN <<min, max>>
    ELSE MinMaxParts(feature.terrain, 1, min, max)

\* create, lines 141-144
needToClamp(st) == ~st.null /\ st.altitude # "absent" /\ st.altitude # "none"

\* create, line 176
terrainMinMaxValid(min, max) == min < max

clamperAppliesIfValid(min, max) == min < max

\* create, line 195
clamperApplies(min, max) == min < FLT_MAX /\ max > -FLT_MAX

\* create, line 182: 3.0 is 30 tenths
catalogMinHeight(min, max) ==
    IF terrainMinMaxValid(min, max) THEN max - min + 30 ELSE 30

ShiftFace(f, d) ==
    [left  |-> [lower |-> f.left.lower + d,  upper |-> f.left.upper + d],
     right |-> [lower |-> f.right.lower + d, upper |-> f.right.upper + d]]

\* BuildingClamper::apply(Elevation*): every face of every wall, then
\* traverse(elev), which applies the visitor to the child elevations.
RECURSIVE BuildingClamperApply(_, _, _)
BuildingClamperApply(elev, min, max) ==
    [elev EXCEPT
        !.walls = [w \in DOMAIN elev.walls |->
                     Wall([f \in DOMAIN elev.walls[w].faces |->
                             ShiftFace(elev.walls[w].faces[f], min)])],
        !.elevations = [c \in DOMAIN elev.elevations |->
                          BuildingClamperApply(elev.elevations[c], min, max)]]

\* Building::accept(clamper): the visitor reaches each elevation of the building.
BuildingAccept(building, min, max) ==
    [building EXCEPT
        !.elevations = [c \in DOMAIN building.elevations |->
                          BuildingClamperApply(building.elevations[c], min, max)]]

clampSliceAll(out, offset, min, max) ==
    [i \in DOMAIN out |-> BuildingAccept(out[i], min, max)]

\* for(i = offset; i < output.size(); ++i) output[i]->accept(clamper)
clampSlice(out, offset, min, max) ==
    [i \in DOMAIN out |-> IF i > offset THEN BuildingAccept(out[i], min, max) ELSE out[i]]


\* feature->eval(heightExpr, session)
Eval(feature, expr) == IF expr.kind = "const" THEN expr.value ELSE feature.height

\* The style createSampleBuilding reads: the default style of the factory's
\* session, whatever style create was given.
sampleSymbolFromArgument(session) == style.building

\* _session->styles()->getDefaultStyle()->get<BuildingSymbol>()
sampleSymbol(session) == session.defaultStyle.building

\* (unsigned)std::max(1.0f, osg::round(height / unitHeight))
sampleNumFloors(height, unitHeight) ==
    FloatToUnsigned(Max1(RoundedQuotient(height, unitHeight)))

\* createSampleBuilding, before Building::build has made the walls.
createSampleBuilding(feature, session) ==
    LET wallSkin == IF session.valid /\ session.reslib THEN session.wallSkin ELSE NoSkin
        roofSkin == IF session.valid /\ session.reslib THEN "roof.commercial.1" ELSE "none"
        sym      == IF session.valid THEN sampleSymbol(session) ELSE NoSym
        height   == IF sym.present THEN Eval(feature, sym.height) ELSE F(150)
        numFloors ==
            IF ~sym.present THEN 1
            ELSE IF wallSkin.present
                 THEN sampleNumFloors(height, wallSkin.imageHeight)
                 ELSE sampleNumFloors(height, sym.floorHeight)
        parapet == Elevation(F(20), 1, Roof("default", roofSkin), NoSkin, F(20), <<1>>, <<>>, <<>>)
        elevation == Elevation(height, numFloors, Roof("flat", roofSkin), wallSkin, F(0), <<>>,
                               <<>>, <<parapet>>)
    IN Building(feature.fid, <<elevation>>)

\* Building::build(polygon, context): one wall per elevation, one face per
\* footprint edge, the parapet standing on the elevation it has as parent.
RECURSIVE BuildElevation(_, _, _)
BuildElevation(elev, edges, base) ==
    LET top == base + (IF elev.height.e = 0 THEN elev.height.m ELSE 0)
    IN [elev EXCEPT
          !.walls = <<Wall([f \in 1..edges |-> Face(base, top, base, top)])>>,
          !.elevations = [c \in DOMAIN elev.elevations |->
                            BuildElevation(elev.elevations[c], edges, top)]]

Build(building, polygon) ==
    [building EXCEPT
        !.elevations = [c \in DOMAIN building.elevations |->
                          BuildElevation(building.elevations[c], polygon.edges, 0)]]

\* The loop of createBuilding over the parts of the geometry: the building of
\* the last valid polygon part, <<>> when there is none.
RECURSIVE createBuildingParts(_, _, _, _)
createBuildingParts(feature, session, p, building) ==
    IF p > Len(feature.geometry.parts) THEN building
    ELSE LET polygon == feature.geometry.parts[p]
         IN IF polygon.polygon /\ polygon.valid
            THEN createBuildingParts(feature, session, p + 1,
                     <<Build(createSampleBuilding(feature, session), polygon)>>)
            ELSE createBuildingParts(feature, session, p + 1, building)

\* createBuilding: a sequence of at most one building (<<>> for a null return).
createBuilding(feature, session) ==
    IF feature.null THEN <<>>
    ELSE IF feature.geometry.present /\ feature.geometry.type = "polygon" /\ feature.geometry.valid
         THEN createBuildingParts(feature, session, 1, <<>>)
         ELSE <<>>

\* BuildingCatalog::createBuildings: appends feature.catalog buildings, none
\* lower than minHeight; the second has three levels of elevations.
CatalogBuildings(feature, session, st, minHeight) ==
    LET h    == IF feature.height.m < minHeight THEN minHeight ELSE feature.height.m
        leaf == Elevation(F(10), 1, Roof("flat", "none"), NoSkin, F(10), <<1, 1>>,
                          <<Wall(<<Face(h + 20, h + 30, h + 20, h + 30)>>)>>, <<>>)
        mid  == Elevation(F(20), 1, Roof("flat", "none"), NoSkin, F(20), <<1>>,
                          <<Wall(<<Face(h, h + 20, h, h + 20)>>),
                            Wall(<<Face(h, h + 20, h, h + 20), Face(h, h + 21, h, h + 19)>>)>>,
                          <<leaf>>)
        base == Elevation(F(h), 1, Roof("flat", "none"), NoSkin, F(0), <<>>,
                          <<Wall(<<Face(0, h, 0, h), Face(-5, h, -4, h)>>)>>, <<mid>>)
        flat == Elevation(F(h), 1, Roof("flat", "none"), NoSkin, F(0), <<>>,
                          <<Wall(<<Face(0, h, 0, h)>>)>>, <<>>)
    IN IF feature.catalog = 0 THEN <<>>
       ELSE IF feature.catalog = 1 THEN <<Building(feature.fid, <<flat>>)>>
       ELSE <<Building(feature.fid, <<flat>>), Building(feature.fid, <<base, flat>>)>>

\* What one feature appends to output before the clamper runs.
Generate(feature, fac, st, min, max) ==
    IF fac.catalog
    THEN CatalogBuildings(feature, fac.session, st, catalogMinHeight(min, max))
    ELSE createBuilding(feature, fac.session)

hasMoreStopsEarly == cursorPos + 1 < Len(input.features)

\* input->hasMore()
hasMore == cursorPos < Len(input.features)

\* create, lines 138-144: the null test on the cursor.
CreateEnter ==
    /\ fpc = "idle"
    /\ IF input.null
       THEN /\ ret' = "false"
            /\ fpc' = "done"
       ELSE /\ ret' = ret
            /\ fpc' = "loop"
    /\ UNCHANGED <<input, cropTo, style, factory, output, cursorPos, output0, raw, owner, trace>>
    /\ UNCHANGED pvars

TraceEntry(feature, skipped, cropped, sampled, min, max, generated, clamped, offset) ==
    [feature |-> feature, skipped |-> skipped, cropped |-> cropped, sampled |-> sampled,
     min |-> min, max |-> max, valid |-> terrainMinMaxValid(min, max),
     catalog |-> generated /\ factory.catalog,
     minHeight |-> IF generated /\ factory.catalog THEN catalogMinHeight(min, max) ELSE 0,
     createBuilding |-> generated /\ ~factory.catalog,
     clamped |-> clamped, offset |-> offset]

\* create, lines 147-204: one turn of the loop over the cursor.
CreateIterate ==
    /\ fpc = "loop"
    /\ hasMore
    /\ cursorPos' = cursorPos + 1
    /\ LET feature == input.features[cursorPos + 1]
           offset  == Len(output)
       IN IF feature.null \/ ~feature.geometry.present
          THEN /\ trace' = Append(trace, TraceEntry(feature, TRUE, FALSE, FALSE, FLT_MAX, -FLT_MAX,
                                                    FALSE, FALSE, offset))
               /\ UNCHANGED <<output, raw, owner>>
          ELSE IF ~cropToCentroid(feature, cropTo)
          THEN /\ trace' = Append(trace, TraceEntry(feature, FALSE, TRUE, FALSE, FLT_MAX, -FLT_MAX,
                                                    FALSE, FALSE, offset))
               /\ UNCHANGED <<output, raw, owner>>
          ELSE LET mm == IF needToClamp(style)
                         THEN calculateTerrainMinMax(feature, FLT_MAX, -FLT_MAX)
                         ELSE <<FLT_MAX, -FLT_MAX>>
                   min == mm[1]
                   max == mm[2]
                   appended == Generate(feature, factory, style, min, max)
                   grown == output \o appended
                   clamp == clamperApplies(min, max)
               IN /\ output' = IF clamp THEN clampSlice(grown, offset, min, max) ELSE grown
                  /\ raw' = raw \o appended
                  /\ owner' = owner \o [i \in DOMAIN appended |-> cursorPos + 1]
                  /\ trace' = Append(trace, TraceEntry(feature, FALSE, FALSE, needToClamp(style),
                                                       min, max, TRUE, clamp, offset))
    /\ UNCHANGED <<input, cropTo, style, factory, ret, fpc, output0>>
    /\ UNCHANGED pvars

\* create, line 206.
CreateReturn ==
    /\ fpc = "loop"
    /\ ~hasMore
    /\ ret' = "true"
    /\ fpc' = "done"
    /\ UNCHANGED <<input, cropTo, style, factory, output, cursorPos, output0, raw, owner, trace>>
    /\ UNCHANGED pvars


-----------------------------------------------------------------------------
(* BuildingPager *)

MaxLevels == 30

\* Stringify() << i for an unsigned i: its decimal digits as character codes.
RECURSIVE Stringify(_)
Stringify(i) ==
    IF i < 10 THEN <<48 + i>>
    ELSE Stringify(i \div 10) \o <<48 + (i % 10)>>

\* "default"
DefaultName == <<100, 101, 102, 97, 117, 108, 116>>

\* StyleSheet::getDefaultStyle
getDefaultStyle(styles) ==
    IF Cardinality(DOMAIN styles) = 1 THEN styles[CHOOSE n \in DOMAIN styles : TRUE]
    ELSE IF DefaultName \in DOMAIN styles THEN styles[DefaultName]
    ELSE EmptyStyle

\* StyleSheet::getStyle(name, fallBackOnDefault) for the names used here
\* (never empty, never starting with '#').
getStyle(styles, name, fallBackOnDefault) ==
    IF name \in DOMAIN styles THEN styles[name]
    ELSE IF fallBackOnDefault /\ DefaultName \in DOMAIN styles THEN styles[DefaultName]
    ELSE IF fallBackOnDefault THEN EmptyStyle
    ELSE NullStyle

\* optional<unsigned>
Optional(value) == [set |-> FALSE, value |-> value]

SetOptional(value) == [set |-> TRUE, value |-> value]

\* setSession, lines 54-69: the scan of the style names "0" .. "29".
RECURSIVE ScanLevels(_, _, _, _)
ScanLevels(styles, i, minLOD, maxLOD) ==
    IF i >= MaxLevels THEN <<minLOD, maxLOD>>
    ELSE LET st == getStyle(styles, Stringify(i), FALSE)
         IN IF ~st.null
            THEN IF ~minLOD.set THEN ScanLevels(styles, i + 1, SetOptional(i), maxLOD)
                 ELSE IF ~maxLOD.set THEN ScanLevels(styles, i + 1, minLOD, SetOptional(i))
                 ELSE ScanLevels(styles, i + 1, minLOD, maxLOD)
            ELSE ScanLevels(styles, i + 1, minLOD, maxLOD)

RECURSIVE ScanLevelsLast(_, _, _, _)
ScanLevelsLast(styles, i, minLOD, maxLOD) ==
    IF i >= MaxLevels THEN <<minLOD, maxLOD>>
    ELSE LET st == getStyle(styles, Stringify(i), FALSE)
         IN IF ~st.null
            THEN IF ~minLOD.set THEN ScanLevelsLast(styles, i + 1, SetOptional(i), maxLOD)
                 ELSE ScanLevelsLast(styles, i + 1, minLOD, SetOptional(i))
            ELSE ScanLevelsLast(styles, i + 1, minLOD, maxLOD)

sessionLevelsLast(styles) ==
    LET scan   == ScanLevelsLast(styles, 0, Optional(0), Optional(0))
        maxLOD == IF scan[1].set /\ ~scan[2].set THEN SetOptional(scan[1].value) ELSE scan[2]
    IN <<scan[1].value, maxLOD.value>>

\* setSession, lines 53-74: the levels given to setMinLevel and setMaxLevel.
sessionLevels(styles) ==
    LET scan   == ScanLevels(styles, 0, Optional(0), Optional(0))
        maxLOD == IF scan[1].set /\ ~scan[2].set THEN SetOptional(scan[1].value) ELSE scan[2]
    IN <<scan[1].value, maxLOD.value>>

\* A Session always holds a style sheet: it makes an empty one when it is
\* given none, so _session->styles() is never null.
HasStyles(session) == TRUE

NoCall == [active |-> FALSE, key |-> [lod |-> 0, x |-> 0, y |-> 0], steps |-> <<>>,
           env |-> [cursor |-> "none", compile |-> TRUE, scene |-> TRUE]]

NoFeatureSource == [valid |-> FALSE, store |-> <<>>]

FeatureSource(store) == [valid |-> TRUE, store |-> store]

\* BuildingPager::BuildingPager: nothing is set; SimplePager starts with the
\* levels 0 and 30.
PagerConstructed ==
    /\ pager = [session |-> NullSession, compiler |-> FALSE, features |-> NoFeatureSource,
                catalog |-> FALSE, minLevel |-> 0, maxLevel |-> MaxLevels]
    /\ call = NoCall
    /\ tiles = <<>>

NothingRequested == ~call.active /\ DOMAIN tiles = {}

setSession(session) ==
    /\ NothingRequested
    /\ IF session.valid
       THEN IF HasStyles(session)
            THEN pager' = [pager EXCEPT !.session = session, !.compiler = TRUE,
                                        !.minLevel = sessionLevels(session.styles)[1],
                                        !.maxLevel = sessionLevels(session.styles)[2]]
            ELSE pager' = [pager EXCEPT !.session = session, !.compiler = TRUE]
       ELSE pager' = [pager EXCEPT !.session = session]
    /\ UNCHANGED <<call, tiles>>
    /\ UNCHANGED fvars

setFeatureSource(features) ==
    /\ NothingRequested
    /\ pager' = [pager EXCEPT !.features = features]
    /\ UNCHANGED <<call, tiles>>
    /\ UNCHANGED fvars

setCatalog(catalog) ==
    /\ NothingRequested
    /\ pager' = [pager EXCEPT !.catalog = catalog]
    /\ UNCHANGED <<call, tiles>>
    /\ UNCHANGED fvars

\* TileKey::getExtent for a profile covering [0, 20] x [0, 20].
TileSize(lod) == IF lod = 0 THEN 20 ELSE 10

TileExtent(key) ==
    GeoExtent(key.x * TileSize(key.lod), (key.x + 1) * TileSize(key.lod),
              key.y * TileSize(key.lod), (key.y + 1) * TileSize(key.lod))

\* The bounding box of a feature meets the extent.
Intersects(feature, extent) ==
    /\ feature.geometry.present
    /\ feature.geometry.bounds.xmin <= extent.east /\ feature.geometry.bounds.xmax >= extent.west
    /\ feature.geometry.bounds.ymin <= extent.north /\ feature.geometry.bounds.ymax >= extent.south

\* FeatureSource::createFeatureCursor for a tile key query: the features of
\* the store that meet the tile.
createFeatureCursor(features, key) ==
    Cursor(SelectSeq(features.store, LAMBDA f : Intersects(f, TileExtent(key))))

\* createNode, line 107
misconfigured == ~pager.session.valid \/ ~pager.compiler \/ ~pager.features.valid

createNodeStyleNoFallback(session, lod) ==
    IF HasStyles(session) THEN getStyle(session.styles, Stringify(lod), FALSE) ELSE NullStyle

\* createNode, lines 137-138: the second argument of getStyle is left to its
\* default, fallBackOnDefault = true.
createNodeStyle(session, lod) ==
    IF HasStyles(session) THEN getStyle(session.styles, Stringify(lod), TRUE) ELSE NullStyle

compileFailedNever(ok) == FALSE

\* !_compiler->compile(buildings, output)
compileFailed(ok) == ~ok

Finished(key, steps, env, node, st, uids) ==
    [key |-> key, steps |-> steps, env |-> env, node |-> node, style |-> st, uids |-> uids]

\* createNode, lines 107-141: up to the call of BuildingFactory::create.
CreateNodeBegin(key) ==
    /\ ~call.active
    /\ key \notin DOMAIN tiles
    /\ IF misconfigured
       THEN /\ tiles' = (key :> Finished(key, <<"precondition">>, NoCall.env, "null", NullStyle, {}))
                        @@ tiles
            /\ UNCHANGED <<call, pager>>
            /\ UNCHANGED fvars
       ELSE \E answer \in {"invalid", "cursor"} :
              LET cursor == IF answer = "invalid" THEN NullCursor
                            ELSE createFeatureCursor(pager.features, key)
                  env    == [cursor |-> IF cursor.null THEN "invalid"
                                        ELSE IF cursor.features = <<>> THEN "empty"
                                        ELSE "features",
                             compile |-> TRUE, scene |-> TRUE]
              IN IF cursor.null \/ cursor.features = <<>>
                 THEN /\ tiles' = (key :> Finished(key, <<"precondition", "query">>, env, "null",
                                                   NullStyle, {})) @@ tiles
                      /\ UNCHANGED <<call, pager>>
                      /\ UNCHANGED fvars
                 ELSE /\ call' = [active |-> TRUE, key |-> key,
                                  steps |-> <<"precondition", "query", "create">>, env |-> env]
                      /\ factory' = [session |-> pager.session, catalog |-> pager.catalog]
                      /\ style' = createNodeStyle(pager.session, key.lod)
                      /\ input' = cursor
                      /\ cropTo' = TileExtent(key)
                      /\ output' = <<>>
                      /\ output0' = <<>>
                      /\ raw' = <<>>
                      /\ owner' = <<>>
                      /\ trace' = <<>>
                      /\ cursorPos' = 0
                      /\ ret' = "none"
                      /\ fpc' = "idle"
                      /\ UNCHANGED <<pager, tiles>>

\* createNode, lines 141-174: from the return of create to the return of the node.
CreateNodeFinish ==
    /\ call.active
    /\ fpc = "done"
    /\ \E compileOk \in BOOLEAN, sceneOk \in BOOLEAN :
         LET env  == [call.env EXCEPT !.compile = compileOk, !.scene = sceneOk]
             uids == {output[i].uid : i \in DOMAIN output}
             done(steps, node) ==
                 tiles' = (call.key :> Finished(call.key, steps, env, node, style, uids)) @@ tiles
         IN IF ret = "false" THEN done(call.steps, "null")
            ELSE IF compileFailed(compileOk) THEN done(call.steps \o <<"compile">>, "null")
            ELSE LET steps == call.steps \o <<"compile", "setRange", "createSceneGraph">>
                 IN IF ~sceneOk THEN done(steps, "null") ELSE done(steps, "node")
    /\ call' = NoCall
    /\ UNCHANGED pager
    /\ UNCHANGED fvars

-----------------------------------------------------------------------------
(* Inputs of create *)

Square == Part(TRUE, TRUE, 4)

TerrainFails == <<Sampled(FALSE, <<70>>)>>

TerrainFlat == <<Sampled(TRUE, <<50, 50>>)>>

TerrainSlope == <<Sampled(TRUE, <<20, 70, 40>>)>>

TerrainParts == <<Sampled(FALSE, <<90>>), Sampled(TRUE, <<>>), Sampled(TRUE, <<-30, 10>>)>>

\* The crop extents the features are placed against: two tiles side by side.
WestTile == GeoExtent(0, 10, 0, 10)

EastTile == GeoExtent(10, 20, 0, 10)

\* The 10 x 10 square in the south-west tile of level 1.
Feature42 == Feature(42, Geometry("polygon", TRUE, <<Square>>, 0, 10, 0, 10), TerrainSlope, F(300), 1)

\* Straddles the two southern tiles, center in the eastern one.
Feature7 == Feature(7, Geometry("polygon", TRUE, <<Square>>, 8, 16, 2, 6), TerrainFlat, F(4), 2)

\* Straddles the two southern tiles, center on their shared edge.
Feature8 ==
    Feature(8, Geometry("polygon", TRUE, <<Square, Part(TRUE, TRUE, 3)>>, 5, 15, 0, 10),
            TerrainParts, F(40), 2)

\* Straddles the four tiles, center on their shared corner.
Feature13 == Feature(13, Geometry("polygon", TRUE, <<Square>>, 5, 15, 5, 15), TerrainFails, F(40), 1)

FeatureSet ==
    { NullFeature,
      Feature(12, NoGeometry, TerrainSlope, F(100), 1),
      Feature42, Feature7, Feature8,
      \* not a polygon
      Feature(9, Geometry("line", TRUE, <<Part(FALSE, TRUE, 2)>>, 2, 8, 2, 8), TerrainSlope, F(50), 0),
      \* a polygon with a part that is not one, no terrain data
      Feature(10, Geometry("polygon", TRUE, <<Square, Part(FALSE, TRUE, 2)>>, 1, 3, 1, 3),
              TerrainFails, F(1), 1),
      \* an invalid polygon, center outside both tiles
      Feature(11, Geometry("polygon", FALSE, <<Part(TRUE, FALSE, 2)>>, 30, 40, 0, 10),
              TerrainFlat, F(60), 1) }

RECURSIVE SeqsUpTo(_, _)
SeqsUpTo(S, n) ==
    IF n = 0 THEN {<<>>}
    ELSE LET shorter == SeqsUpTo(S, n - 1)
         IN shorter \cup {Append(q, x) : q \in shorter, x \in S}

CursorSet == {NullCursor} \cup {Cursor(q) : q \in SeqsUpTo(FeatureSet, MaxCursor)}

ExtentSet == {InvalidExtent, WestTile, EastTile}

HeightSymbol == BuildingSymbol(ConstExpr(F(300)), 30)

StyleSet ==
    { NullStyle,
      MkStyle(<<53>>, "none", HeightSymbol),
      MkStyle(<<55>>, "terrain", BuildingSymbol(ConstExpr(F(450)), 50)) }

SessionSet ==
    { NullSession,
      \* a default style with a building symbol, no resource library
      Session(<<>>, MkStyle(<<>>, "absent", HeightSymbol), FALSE, NoSkin),
      \* no building symbol in the default style, no resource library
      Session(<<>>, EmptyStyle, FALSE, NoSkin),
      \* height from the feature's attribute, a wall skin 4.0 high
      Session(<<>>, MkStyle(<<>>, "absent", BuildingSymbol(AttrExpr, 30)), TRUE, Skin(40)) }

FactorySet == [session : SessionSet, catalog : BOOLEAN]

OlderBuilding ==
    Building(1, <<Elevation(F(50), 1, Roof("flat", "none"), NoSkin, F(0), <<>>,
                            <<Wall(<<Face(0, 50, 0, 50)>>)>>, <<>>)>>)

OutputSet == {<<>>, <<OlderBuilding>>}

FactoryInit ==
    /\ input \in CursorSet
    /\ cropTo \in ExtentSet
    /\ style \in StyleSet
    /\ factory \in FactorySet
    /\ output \in OutputSet
    /\ output0 = output
    /\ raw = output
    /\ owner = [i \in DOMAIN output |-> 0]
    /\ cursorPos = 0
    /\ ret = "none"
    /\ fpc = "idle"
    /\ trace = <<>>
    /\ PagerConstructed

FactoryNext == CreateEnter \/ CreateIterate \/ CreateReturn

SpecFactory == FactoryInit /\ [][FactoryNext]_vars

-----------------------------------------------------------------------------
(* The pager and its tiles *)

\* No create in progress.
FactoryUnused ==
    /\ input = NullCursor
    /\ cropTo = InvalidExtent
    /\ style = NullStyle
    /\ factory = [session |-> NullSession, catalog |-> FALSE]
    /\ output = <<>>
    /\ output0 = <<>>
    /\ raw = <<>>
    /\ owner = <<>>
    /\ cursorPos = 0
    /\ ret = "none"
    /\ fpc = "done"
    /\ trace = <<>>

SheetSession(styles) == Session(styles, getDefaultStyle(styles), FALSE, NoSkin)

\* Styles "1" and "default".
SheetOneAndDefault ==
    (<<49>> :> MkStyle(<<49>>, "terrain", HeightSymbol))
    @@ (DefaultName :> MkStyle(DefaultName, "none", BuildingSymbol(ConstExpr(F(450)), 50)))

\* Styles "0" and "1".
SheetZeroAndOne ==
    (<<48>> :> MkStyle(<<48>>, "none", NoSym)) @@ (<<49>> :> MkStyle(<<49>>, "absent", NoSym))

PagerSessionSet ==
    {NullSession, SheetSession(SheetOneAndDefault), SheetSession(SheetZeroAndOne),
     SheetSession(<<>>)}

StoreSet == {<<>>, <<Feature7, Feature8>>, <<Feature13, Feature42>>}

KeySet ==
    {[lod |-> 0, x |-> 0, y |-> 0]} \cup {[lod |-> 1, x |-> x, y |-> y] : x \in {0, 1}, y \in {0, 1}}

PagerInit == PagerConstructed /\ FactoryUnused

PagerNext ==
    \/ \E session \in PagerSessionSet : setSession(session)
    \/ \E store \in StoreSet : setFeatureSource(FeatureSource(store))
    \/ \E catalog \in BOOLEAN : setCatalog(catalog)
    \/ \E key \in KeySet : CreateNodeBegin(key)
    \/ CreateEnter
    \/ CreateIterate
    \/ CreateReturn
    \/ CreateNodeFinish

SpecPager == PagerInit /\ [][PagerNext]_vars

-----------------------------------------------------------------------------
(* Properties of create *)

Done == fpc = "done"

\* The trace entries of the features that had a geometry.
WithGeometry == {k \in DOMAIN trace : ~trace[k].skipped}

\* The indices of output appended for the k-th feature of the cursor.
SliceOf(k) == {i \in DOMAIN output : owner[i] = k}

\* The elevations the terrain query resolved for a feature.
ResolvedElevations(feature) ==
    UNION {{feature.terrain[p].elevations[j] : j \in DOMAIN feature.terrain[p].elevations} :
              p \in {q \in DOMAIN feature.terrain : feature.terrain[q].ok}}

Least(S) == CHOOSE e \in S : \A d \in S : e <= d

Greatest(S) == CHOOSE e \in S : \A d \in S : e >= d

\* Twice the bounding-box center lies within the extent, bounds included.
CenterInside(feature, extent) ==
    LET b == feature.geometry.bounds
    IN /\ 2 * extent.west <= b.xmin + b.xmax /\ b.xmin + b.xmax <= 2 * extent.east
       /\ 2 * extent.south <= b.ymin + b.ymax /\ b.ymin + b.ymax <= 2 * extent.north

\* C1: create returns false exactly for a null cursor and then leaves output
\* as it was; for a non-null cursor it returns true only with the cursor
\* exhausted, one loop turn per feature, and an empty cursor leaves output
\* unchanged.  Until create returns it stands at the null test or in the loop,
\* never past the end of the cursor.
C1_CreateResult ==
    /\ Done => ((ret = "false") <=> input.null)
    /\ (Done /\ input.null) => (output = output0 /\ cursorPos = 0)
    /\ (Done /\ ~input.null) =>
          /\ ret = "true"
          /\ cursorPos = Len(input.features)
          /\ Len(trace) = Len(input.features)
    /\ (Done /\ ~input.null /\ input.features = <<>>) => output = output0
    /\ ~Done =>
          /\ ret = "none"
          /\ fpc \in {"idle", "loop"}
          /\ cursorPos <= Len(input.features)
          /\ Len(trace) = cursorPos

\* A cursor of two features, a null one and a cropped-out one, was consumed
\* and create returned true with output unchanged.
C1_Witness ==
    /\ Done /\ ret = "true"
    /\ Len(input.features) = 2
    /\ \E k \in DOMAIN trace : trace[k].skipped
    /\ \E k \in DOMAIN trace : trace[k].cropped
    /\ output = output0

\* C2: a feature with geometry whose bounding-box center lies outside a valid
\* crop extent appends nothing and reaches neither the terrain sampling, the
\* catalog nor createBuilding; every other feature with geometry is passed to
\* generation; and what a feature appends is what it generates on its own,
\* whatever its siblings were.
C2_CentroidCrop ==
    \A k \in WithGeometry :
        LET feature == input.features[k]
            outside == cropTo.valid /\ ~CenterInside(feature, cropTo)
        IN /\ trace[k].cropped <=> outside
           /\ outside =>
                 /\ SliceOf(k) = {}
                 /\ ~trace[k].sampled /\ ~trace[k].catalog /\ ~trace[k].createBuilding
           /\ ~outside =>
                 /\ trace[k].catalog \/ trace[k].createBuilding
                 /\ LET own == Generate(feature, factory, style, trace[k].min, trace[k].max)
                    IN /\ Cardinality(SliceOf(k)) = Len(own)
                       /\ \A i \in SliceOf(k) : raw[i] = own[i - trace[k].offset]

\* A cropped-out feature and a sibling that appended buildings.
C2_Witness ==
    /\ Done
    /\ \E k \in WithGeometry : trace[k].cropped
    /\ \E k \in WithGeometry : ~trace[k].cropped /\ SliceOf(k) # {}

\* The z values of the wall edges of an elevation and of the elevations
\* below it, in a fixed order.
RECURSIVE ZsOfFaces(_, _)
ZsOfFaces(faces, f) ==
    IF f > Len(faces) THEN <<>>
    ELSE <<faces[f].left.lower, faces[f].left.upper, faces[f].right.lower, faces[f].right.upper>>
         \o ZsOfFaces(faces, f + 1)

RECURSIVE ZsOfWalls(_, _)
ZsOfWalls(walls, w) ==
    IF w > Len(walls) THEN <<>>
    ELSE ZsOfFaces(walls[w].faces, 1) \o ZsOfWalls(walls, w + 1)

RECURSIVE ZsOfElevations(_, _)
ZsOfElevations(elevations, c) ==
    IF c > Len(elevations) THEN <<>>
    ELSE ZsOfWalls(elevations[c].walls, 1)
         \o ZsOfElevations(elevations[c].elevations, 1)
         \o ZsOfElevations(elevations, c + 1)

\* An elevation tree with its walls taken away.
RECURSIVE Unwalled(_)
Unwalled(elevations) ==
    [c \in DOMAIN elevations |->
        [elevations[c] EXCEPT !.walls = <<>>, !.elevations = Unwalled(elevations[c].elevations)]]

\* C4: when the style asks for clamping and the terrain query resolved at
\* least one elevation for a feature, every wall edge z at every depth of
\* every building appended for that feature is its generated value plus that
\* feature's own least elevation, and nothing else of the building changes;
\* buildings that were in output before, and buildings of a feature with no
\* resolved elevation or of a run without clamping, are exactly as generated.
C4_TerrainClamp ==
    \A i \in DOMAIN output :
        IF owner[i] = 0 THEN output[i] = output0[i]
        ELSE LET feature  == input.features[owner[i]]
                 resolved == ResolvedElevations(feature)
                 zsOut    == ZsOfElevations(output[i].elevations, 1)
                 zsRaw    == ZsOfElevations(raw[i].elevations, 1)
             IN IF needToClamp(style) /\ resolved # {}
                THEN /\ Len(zsOut) = Len(zsRaw)
                     /\ \A j \in DOMAIN zsOut : zsOut[j] = zsRaw[j] + Least(resolved)
                     /\ Unwalled(output[i].elevations) = Unwalled(raw[i].elevations)
                     /\ output[i].uid = raw[i].uid
                ELSE /\ output[i] = raw[i]
                     /\ (needToClamp(style) /\ factory.catalog) => trace[owner[i]].minHeight = 30

\* Next to an older building, a feature had its buildings lifted, one of them
\* with elevations three levels deep, and a sibling whose terrain query
\* resolved nothing had its building left as generated.
C4_Witness ==
    /\ Done
    /\ Len(output0) = 1
    /\ \E i \in DOMAIN output :
          /\ owner[i] > 0
          /\ trace[owner[i]].clamped /\ trace[owner[i]].min # 0
          /\ Len(output[i].elevations) > 0
          /\ Len(output[i].elevations[1].elevations) > 0
          /\ Len(output[i].elevations[1].elevations[1].elevations) > 0
          /\ output[i] # raw[i]
    /\ \E k \in DOMAIN trace : trace[k].sampled /\ ~trace[k].clamped /\ SliceOf(k) # {}

\* A feature createBuilding makes a building of: a valid polygon geometry
\* with at least one valid polygon part.
ValidPolygon(feature) ==
    /\ feature.geometry.present /\ feature.geometry.type = "polygon" /\ feature.geometry.valid
    /\ \E p \in DOMAIN feature.geometry.parts :
          feature.geometry.parts[p].polygon /\ feature.geometry.parts[p].valid

\* The shape of a sample building: one root elevation with a flat roof and
\* one parapet child (height 2.0, width 2.0, one floor) whose parent is the root.
SampleShape(b, fid, height, numFloors) ==
    /\ b.uid = fid
    /\ Len(b.elevations) = 1
    /\ b.elevations[1].height = height
    /\ b.elevations[1].numFloors = numFloors
    /\ b.elevations[1].roof.type = "flat"
    /\ b.elevations[1].parent = <<>>
    /\ Len(b.elevations[1].elevations) = 1
    /\ LET parapet == b.elevations[1].elevations[1]
       IN /\ parapet.height = [m |-> 20, e |-> 0]
          /\ parapet.width = [m |-> 20, e |-> 0]
          /\ parapet.numFloors = 1
          /\ parapet.parent = <<1>>
          /\ parapet.elevations = <<>>

\* The scenario of C8: no catalog, a session without resource library, and
\* the single polygon feature 42 kept by the crop.
Scenario42 ==
    /\ Done
    /\ ~factory.catalog /\ factory.session.valid /\ ~factory.session.reslib
    /\ Len(input.features) = 1
    /\ input.features[1].fid = 42 /\ ValidPolygon(input.features[1])
    /\ ~trace[1].cropped

\* C8 as stated: in that scenario, with the style passed to create carrying
\* the height expression 30.0 and the floor height 3.0, exactly one building
\* is appended: identifier 42, root height 30.0 with 10 floors, one parapet.
C8_StylePassedToCreate ==
    (Scenario42 /\ ~style.null /\ style.building.present
       /\ style.building.height = [kind |-> "const", value |-> [m |-> 300, e |-> 0]]
       /\ style.building.floorHeight = 30)
    => /\ Len(output) = Len(output0) + 1
       /\ SampleShape(output[Len(output)], 42, [m |-> 300, e |-> 0], 10)

\* C8 amended: the height expression and floor height are those of the default
\* style of the factory's session, whatever style create was given.  Each
\* feature createBuilding makes a building of appends exactly one building,
\* identified by the feature's FID, of the sample shape; its root height is
\* the default style's height expression evaluated on the feature, 15.0 when
\* the session is unset or its default style has no building symbol; with
\* 30.0 and 3.0 in the default style and no wall skin it is 30.0 with 10 floors.
C8_SessionDefaultStyle ==
    \A k \in DOMAIN trace :
        trace[k].createBuilding =>
            LET feature == input.features[k]
                sym     == factory.session.defaultStyle.building
                hasSym  == factory.session.valid /\ sym.present
                height  == IF ~hasSym THEN [m |-> 150, e |-> 0]
                           ELSE IF sym.height.kind = "const" THEN sym.height.value
                           ELSE feature.height
            IN IF ValidPolygon(feature)
               THEN /\ Cardinality(SliceOf(k)) = 1
                    /\ \A i \in SliceOf(k) :
                          /\ SampleShape(output[i], feature.fid, height, output[i].elevations[1].numFloors)
                          /\ ~hasSym => output[i].elevations[1].numFloors = 1
                          /\ (hasSym /\ ~factory.session.reslib /\ sym.floorHeight = 30
                                /\ height = [m |-> 300, e |-> 0])
                             => output[i].elevations[1].numFloors = 10
               ELSE SliceOf(k) = {}

\* Feature 42 in the scenario, 30.0 and 3.0 in the session's default style and
\* another height in the style passed to create: one building, 30.0 high, 10 floors.
C8_Witness ==
    /\ Scenario42
    /\ factory.session.defaultStyle.building.present
    /\ factory.session.defaultStyle.building.floorHeight = 30
    /\ ~style.null /\ style.building.present /\ style.building.floorHeight = 50
    /\ Len(output) = Len(output0) + 1
    /\ SampleShape(output[Len(output)], 42, [m |-> 300, e |-> 0], 10)

\* C10 as stated: the clamper runs on a feature's buildings exactly when
\* terrainMinMaxValid (min < max) holds.
C10_SameValidity ==
    \A k \in WithGeometry :
        ~trace[k].cropped => (trace[k].clamped <=> trace[k].valid)

\* C10 amended: the clamper runs exactly when the style asks for clamping and
\* at least one elevation was resolved (min < FLT_MAX and max > -FLT_MAX);
\* terrainMinMaxValid holds exactly when in addition the least resolved
\* elevation is below the greatest, so it implies the clamper's condition and
\* the two differ exactly when all resolved elevations are equal; the catalog
\* is given max - min + 3.0 whenever the clamper runs (3.0 when min = max) and
\* 3.0 otherwise.
C10_ClamperCondition ==
    \A k \in WithGeometry :
        ~trace[k].cropped =>
            LET resolved == ResolvedElevations(input.features[k])
                some     == needToClamp(style) /\ resolved # {}
            IN /\ trace[k].clamped <=> some
               /\ trace[k].valid <=> (some /\ Least(resolved) < Greatest(resolved))
               /\ trace[k].valid => trace[k].clamped
               /\ (trace[k].clamped /\ ~trace[k].valid) => trace[k].min = trace[k].max
               /\ trace[k].catalog =>
                     trace[k].minHeight =
                        (IF some THEN Greatest(resolved) - Least(resolved) + 30 ELSE 30)

\* Flat terrain: the clamper ran on catalog buildings although min < max fails.
C10_Witness ==
    /\ Done
    /\ \E k \in WithGeometry :
          /\ trace[k].clamped /\ ~trace[k].valid /\ trace[k].catalog
          /\ SliceOf(k) # {}
          /\ \E i \in SliceOf(k) : output[i] # raw[i]

-----------------------------------------------------------------------------
(* Properties of the pager *)

\* The decimal name of a level below 100, written out digit by digit.
DecimalName(lod) ==
    IF lod < 10 THEN <<48 + lod>> ELSE <<48 + (lod \div 10), 48 + (lod % 10)>>

\* The finished calls that reached BuildingFactory::create.
Created == {t \in DOMAIN tiles : Len(tiles[t].steps) >= 3}

\* C3 as stated: a feature returned by the queries of several tiles of one
\* level yields buildings in exactly one of them: no two tiles of a level
\* hold buildings of the same feature, and once create has run for all four
\* tiles of level 1 every feature of the store has its buildings in one.
C3_ExactlyOneTile ==
    /\ \A t1, t2 \in Created :
          (t1 # t2 /\ t1.lod = t2.lod) => tiles[t1].uids \cap tiles[t2].uids = {}
    /\ ({k \in KeySet : k.lod = 1} \subseteq Created) =>
          \A f \in DOMAIN pager.features.store :
              \E t \in Created : t.lod = 1 /\ pager.features.store[f].fid \in tiles[t].uids

StepOrder == <<"precondition", "query", "create", "compile", "setRange", "createSceneGraph">>

Prefix(n) == SubSeq(StepOrder, 1, n)

\* C6: the steps of every createNode call are a prefix of precondition, query,
\* create, compile, setRange, createSceneGraph.  An unset session, compiler
\* or feature source ends the call after the precondition check; an invalid
\* or empty cursor ends it after the query; a failed compile ends it after
\* compile; in all these cases, and when createSceneGraph yields null, the
\* result is null.  A node is returned exactly when every step succeeded.
C6_FailFast ==
    LET configured == pager.session.valid /\ pager.compiler /\ pager.features.valid
    IN /\ call.active => (configured /\ call.steps = Prefix(3) /\ call.env.cursor = "features")
       /\ \A t \in DOMAIN tiles :
             LET r == tiles[t]
             IN /\ \E n \in 1..Len(StepOrder) : r.steps = Prefix(n)
                /\ ~configured => (r.steps = Prefix(1) /\ r.node = "null")
                /\ (configured /\ r.env.cursor \in {"invalid", "empty"})
                      => (r.steps = Prefix(2) /\ r.node = "null" /\ r.uids = {})
                /\ (configured /\ r.env.cursor = "features" /\ ~r.env.compile)
                      => (r.steps = Prefix(4) /\ r.node = "null")
                /\ (configured /\ r.env.cursor = "features" /\ r.env.compile)
                      => r.steps = StepOrder
                /\ r.node = "node" <=>
                      (configured /\ r.env.cursor = "features" /\ r.env.compile /\ r.env.scene)

\* One tile got a node, one stopped at a failed compile, one at an invalid cursor.
C6_Witness ==
    /\ \E t \in DOMAIN tiles : tiles[t].node = "node" /\ tiles[t].uids # {}
    /\ \E t \in DOMAIN tiles : tiles[t].env.cursor = "features" /\ ~tiles[t].env.compile
    /\ \E t \in DOMAIN tiles : tiles[t].env.cursor = "invalid"
    /\ \E t \in DOMAIN tiles : tiles[t].env.compile /\ ~tiles[t].env.scene /\ tiles[t].node = "null"

-----------------------------------------------------------------------------
(* setSession over style sheets *)

MaxStyles == 3

RECURSIVE SubsetsUpTo(_, _)
SubsetsUpTo(S, n) ==
    IF n = 0 THEN {{}}
    ELSE LET smaller == SubsetsUpTo(S, n - 1)
         IN smaller \cup {q \cup {x} : q \in smaller, x \in S}

\* The names "0" .. "29" and some that name no level: "00", "05", "30", "default".
NamePool ==
    {DecimalName(l) : l \in 0..29} \cup {<<48, 48>>, <<48, 53>>, <<51, 48>>, DefaultName}

StylesNamed(names) == [n \in names |-> MkStyle(n, "absent", NoSym)]

SessionInit == PagerConstructed /\ FactoryUnused

\* The host sets the session of a newly constructed pager.
SessionNext ==
    /\ ~pager.compiler
    /\ \E names \in SubsetsUpTo(NamePool, MaxStyles) : setSession(SheetSession(StylesNamed(names)))

SpecSession == SessionInit /\ [][SessionNext]_vars

\* The level a style name stands for, -1 when it is not the decimal name of one.
LevelOf(name) ==
    IF \E c \in DOMAIN name : name[c] < 48 \/ name[c] > 57 THEN -1
    ELSE IF Len(name) = 1 THEN name[1] - 48
    ELSE IF Len(name) = 2 /\ name[1] # 48 THEN (name[1] - 48) * 10 + (name[2] - 48)
    ELSE -1

\* C5: after setSession with a style sheet that has a style for at least one
\* of the levels 0 .. 29, the min level is the lowest level with a style and
\* the max level the next one up, or the same level when there is only one:
\* "2" and "5" give 2 and 5, "4" alone gives 4 and 4.
C5_LevelRange ==
    pager.session.valid =>
        LET levels == {LevelOf(n) : n \in DOMAIN pager.session.styles} \cap (0..29)
            first  == Least(levels)
        IN levels # {} =>
              /\ pager.minLevel = first
              /\ pager.maxLevel = (IF levels = {first} THEN first ELSE Least(levels \ {first}))
              /\ levels = {2, 5} => (pager.minLevel = 2 /\ pager.maxLevel = 5)
              /\ levels = {4} => (pager.minLevel = 4 /\ pager.maxLevel = 4)

\* A sheet with styles for three levels: the max level is the second of them.
C5_Witness ==
    /\ pager.session.valid
    /\ Cardinality({LevelOf(n) : n \in DOMAIN pager.session.styles} \cap (0..29)) = 3
    /\ pager.minLevel = 2 /\ pager.maxLevel = 5
    /\ DecimalName(17) \in DOMAIN pager.session.styles

-----------------------------------------------------------------------------
(* createSampleBuilding over heights and unit heights *)

MaxHeight == 40

MaxUnit == 12

\* Heights in tenths, and one beyond the range of an unsigned floor count:
\* 360360 * 2^32 tenths, a multiple of every unit height used.
HeightSet == {F(h) : h \in 1..MaxHeight} \cup {[m |-> 360360, e |-> 32]}

SampleSessionSet ==
    {NullSession, Session(<<>>, EmptyStyle, TRUE, Skin(30))}
    \cup {Session(<<>>, MkStyle(<<>>, "absent", BuildingSymbol(AttrExpr, u)), FALSE, NoSkin) :
             u \in 1..MaxUnit}
    \cup {Session(<<>>, MkStyle(<<>>, "absent", BuildingSymbol(AttrExpr, 30)), TRUE, Skin(u)) :
             u \in 1..MaxUnit}
    \cup {Session(<<>>, MkStyle(<<>>, "absent", BuildingSymbol(AttrExpr, 7)), TRUE, NoSkin)}

\* The unit height createSampleBuilding divides by.
UnitHeight(session) ==
    IF session.reslib /\ session.wallSkin.present THEN session.wallSkin.imageHeight
    ELSE session.defaultStyle.building.floorHeight

SampleInit ==
    /\ \E h \in HeightSet :
          input = Cursor(<<Feature(1, Geometry("polygon", TRUE, <<Square>>, 0, 10, 0, 10),
                                   TerrainFails, h, 0)>>)
    /\ factory \in [session : SampleSessionSet, catalog : {FALSE}]
    /\ (input.features[1].height.e > 0 /\ factory.session.defaultStyle.building.present)
          => input.features[1].height.m % UnitHeight(factory.session) = 0
    /\ cropTo = InvalidExtent
    /\ style = NullStyle
    /\ output = <<>>
    /\ output0 = <<>>
    /\ raw = <<>>
    /\ owner = <<>>
    /\ cursorPos = 0
    /\ ret = "none"
    /\ fpc = "idle"
    /\ trace = <<>>
    /\ PagerConstructed

\* createSampleBuilding applied to the feature.
SampleBuilding ==
    /\ fpc = "idle"
    /\ output' = <<createSampleBuilding(input.features[1], factory.session)>>
    /\ fpc' = "done"
    /\ UNCHANGED <<input, cropTo, style, factory, cursorPos, ret, output0, raw, owner, trace>>
    /\ UNCHANGED pvars

SampleNext == SampleBuilding

SpecSample == SampleInit /\ [][SampleNext]_vars

\* C9 as stated: every elevation of a sample building has at least one floor,
\* for every positive height and every unit height above 0; the parapet has
\* one, and so has the root when there is no building symbol.
C9_FloorCountAtLeastOne ==
    Done =>
        LET root == output[1].elevations[1]
        IN /\ root.numFloors >= 1
           /\ root.elevations[1].numFloors = 1
           /\ ~(factory.session.valid /\ factory.session.defaultStyle.building.present)
                 => root.numFloors = 1

\* The same for the heights whose quotient by the unit height is below 2^32:
\* there the floor count is max(1, round(height / unitHeight)) >= 1.
FloorCountInRange ==
    (Done /\ input.features[1].height.e = 0) =>
        LET root == output[1].elevations[1]
            h    == input.features[1].height.m
            u    == UnitHeight(factory.session)
        IN /\ root.numFloors >= 1
           /\ root.elevations[1].numFloors = 1
           /\ IF factory.session.valid /\ factory.session.defaultStyle.building.present
              THEN root.numFloors = (IF 2 * h < u THEN 1 ELSE (2 * h + u) \div (2 * u))
              ELSE root.numFloors = 1

====
